---- MODULE Spec2Model ----
(***************************************************************************)
(* Model of the Eleven Clone backend (src/main.py, src/setup_database.py): *)
(* the users and onboarding_profiles collections of the document store,    *)
(* the signup / login / get_current_user handlers, the bearer tokens they  *)
(* issue and verify, and the onboarding routes.                            *)
(*                                                                         *)
(* A handler runs atomically between two awaits.  signup awaits twice      *)
(* (find_one, then insert_one), so it is two actions and two requests may  *)
(* interleave between them; every other handler awaits the store once.     *)
(*                                                                         *)
(* Init is the deployed system: setup_database() has run (the unique       *)
(* indexes exist) and startup_db_client() has connected.                   *)
(*                                                                         *)
(* Time is counted in the unit of JWT_ACCESS_TOKEN_EXPIRE_MINUTES; the     *)
(* token library compares whole-unit integers (exp and now are truncated   *)
(* by timegm(utctimetuple())).                                             *)
(***************************************************************************)
EXTENDS Integers, Sequences, FiniteSets, TLC

\* ------------------------------------------------------------------ bounds
\* ObjectIds the store hands out are 1..MaxId.
MaxId == 3
\* The clock runs over 0..MaxTime.
MaxTime == 4

\* ------------------------------------------------------------ input domains
Emails == {"a@x.io", "b@x.io"}
Passwords == {"pw1", "pw2"}
Names == {"Ann"}
Themes == {"light", "dark"}
Plans == {"free", "pro"}
\* bcrypt.gensalt() draws a fresh random salt.
Salts == {"s1", "s2"}
\* Request slots: two signup requests can be in flight at once.
Procs == {"r1", "r2"}

\* ------------------------------------------------------ program constants
\* int(os.getenv("JWT_ACCESS_TOKEN_EXPIRE_MINUTES", "30")): the deployment's
\* setting; the model runs with a short lifetime so that expiry is reached.
JWT_ACCESS_TOKEN_EXPIRE_MINUTES == 2
JWT_SECRET_KEY == "server-secret"
\* A key that is not the server's: what a forger signs with.
OtherKey == "other-secret"

UsersEmailIndex == "users.email"
ProfilesEmailIndex == "onboarding_profiles.personalDetails.email"

VARIABLES
    users,      \* db.users: set of user documents
    profiles,   \* db.onboarding_profiles: set of profile documents
    indexes,    \* the unique indexes that exist in the store
    nextId,     \* the next ObjectId the store assigns
    pc,         \* per request slot: "idle" or "insert" (signup between its awaits)
    req,        \* per request slot: the signup body being served / last served
    out,        \* per request slot: the response of its last finished signup
    resp,       \* the response of the last finished single-await request
    held,       \* the access token most recently returned to a caller
    now         \* datetime.utcnow(), in whole units

vars == <<users, profiles, indexes, nextId, pc, req, out, resp, held, now>>

\* ------------------------------------------------------------- identifiers
\* str(ObjectId): the 24-hex-digit rendering of an id.
IdStr(i) == <<"oid", i>>
\* A string that is not 24 hex digits.
BadIdStr == <<"junk">>
\* The strings a caller can put in a path parameter or a token subject.
IdStrings == {IdStr(i) : i \in 1..(MaxId + 1)} \cup {BadIdStr}

\* bson.ObjectId(s): the id a string denotes; {} when it raises InvalidId.
ObjectId(s) == IF Len(s) = 2 /\ s[1] = "oid" THEN {s[2]} ELSE {}

\* ---------------------------------------------------------------- bcrypt
\* bcrypt.hashpw(pw, salt): the digest embeds the salt it was made with.
HashPw(pw, salt) == [salt |-> salt, hash |-> <<salt, pw>>]
\* bcrypt.checkpw(pw, digest): rehash with the digest's salt and compare.
CheckPw(pw, digest) == HashPw(pw, digest.salt) = digest

\* ----------------------------------------------------------------- store
\* collection.find_one(filter), given the documents the filter matches: the
\* first of them (lowest id), as a set of at most one document.
FindOne(hits) ==
    IF hits = {} THEN {}
    ELSE {CHOOSE d \in hits : \A e \in hits : d.id <= e.id}

\* A users collection whose email index is not unique.
UsersDuplicateKey_NoIndex(doc) == FALSE

\* Whether insert_one(doc) into db.users raises DuplicateKeyError.
UsersDuplicateKey(doc) ==
    UsersEmailIndex \in indexes /\ \E u \in users : u.email = doc.email

\* Whether insert_one(doc) into db.onboarding_profiles raises DuplicateKeyError.
ProfilesDuplicateKey(doc) ==
    ProfilesEmailIndex \in indexes /\ \E q \in profiles : q.email = doc.email

\* ------------------------------------------------------------- responses
NoTok == [kind |-> "none", key |-> "", sub |-> <<>>, exp |-> <<>>]

Response(op, status, detail, userId, token, doc) ==
    [op |-> op, status |-> status, detail |-> detail,
     userId |-> userId, token |-> token, doc |-> doc]

NoResp == Response("none", 0, "", <<>>, NoTok, {})
\* An exception no handler catches: the framework answers 500.
ServerError(op) == Response(op, 500, "Internal Server Error", <<>>, NoTok, {})

NoReq == [email |-> "", password |-> "", name |-> ""]

Init ==
    /\ users = {}
    /\ profiles = {}
    /\ indexes = {UsersEmailIndex, ProfilesEmailIndex}
    /\ nextId = 1
    /\ pc = [p \in Procs |-> "idle"]
    /\ req = [p \in Procs |-> NoReq]
    /\ out = [p \in Procs |-> NoResp]
    /\ resp = NoResp
    /\ held = NoTok
    /\ now = 0

\* setup_database(): create_index(..., unique=True) on both collections; running
\* it again changes nothing.
SetupDatabase ==
    /\ indexes' = indexes \cup {UsersEmailIndex, ProfilesEmailIndex}
    /\ UNCHANGED <<users, profiles, nextId, pc, req, out, resp, held, now>>

\* ---------------------------------------------------------------- signup
\* signup up to its first await: find_one({"email": ...}); a hit answers 400.
SignupFind(p, e, pw, n) ==
    /\ pc[p] = "idle"
    /\ req' = [req EXCEPT ![p] = [email |-> e, password |-> pw, name |-> n]]
    /\ IF FindOne({u \in users : u.email = e}) # {}
       THEN /\ out' = [out EXCEPT ![p] =
                    Response("signup", 400, "User already exists", <<>>, NoTok, {})]
            /\ pc' = pc
       ELSE /\ pc' = [pc EXCEPT ![p] = "insert"]
            /\ out' = [out EXCEPT ![p] = NoResp]
    /\ UNCHANGED <<users, profiles, indexes, nextId, resp, held, now>>

\* signup from its second await: hash the password, insert_one(user_doc).  A
\* DuplicateKeyError from the unique index is caught nowhere.
SignupInsert(p, salt) ==
    /\ pc[p] = "insert"
    /\ nextId <= MaxId
    /\ LET user_doc == [id |-> nextId, email |-> req[p].email,
                        name |-> req[p].name,
                        password |-> HashPw(req[p].password, salt)]
       IN IF UsersDuplicateKey(user_doc)
          THEN /\ out' = [out EXCEPT ![p] = ServerError("signup")]
               /\ UNCHANGED <<users, nextId>>
          ELSE /\ users' = users \cup {user_doc}
               /\ nextId' = nextId + 1
               /\ out' = [out EXCEPT ![p] =
                       Response("signup", 200, "User created successfully",
                                IdStr(user_doc.id), NoTok, {})]
    /\ pc' = [pc EXCEPT ![p] = "idle"]
    /\ UNCHANGED <<profiles, indexes, req, resp, held, now>>

\* ---------------------------------------------------------------- tokens
\* An encoded JWT: its claims and the key its signature was made with.
Jwt(key, sub, exp) == [kind |-> "jwt", key |-> key, sub |-> sub, exp |-> exp]
\* A bearer string that is not three base64url parts.
Garbage == [kind |-> "garbage", key |-> "", sub |-> <<>>, exp |-> <<>>]

\* create_access_token(data={"sub": sub}, expires_delta): expires_delta is <<>>
\* for None and <<d>> for a timedelta of d units.  `if expires_delta:` is false
\* for None and for a zero timedelta alike.
create_access_token(sub, expires_delta, t) ==
    LET expire == IF expires_delta # <<>> /\ expires_delta[1] # 0
                  THEN t + expires_delta[1]
                  ELSE t + JWT_ACCESS_TOKEN_EXPIRE_MINUTES
    IN Jwt(JWT_SECRET_KEY, sub, <<expire>>)

\* jwt.decode(token, JWT_SECRET_KEY, algorithms=[JWT_ALGORITHM]) at time t: "ok",
\* or the class of the JWTError it raises.  The signature is verified first;
\* then an exp claim, when present, is rejected if exp < now.
JwtDecode(c, t) ==
    IF c.kind # "jwt" THEN "JWTError"
    ELSE IF c.key # JWT_SECRET_KEY THEN "JWTError"
    ELSE IF c.exp # <<>> /\ c.exp[1] < t THEN "ExpiredSignatureError"
    ELSE "ok"

\* credentials_exception
CredentialsException ==
    Response("get_current_user", 401, "Could not validate credentials", <<>>, NoTok, {})

\* get_current_user(credentials): decode, read "sub", look the user up by
\* ObjectId(sub).  ObjectId(...) is outside the try block.
CurrentUserResponse(c) ==
    IF JwtDecode(c, now) # "ok" THEN CredentialsException
    ELSE IF c.sub = <<>> THEN CredentialsException
    ELSE IF ObjectId(c.sub) = {} THEN ServerError("get_current_user")
    ELSE LET user == FindOne({u \in users : {u.id} = ObjectId(c.sub)})
         IN IF user = {} THEN CredentialsException
            ELSE Response("get_current_user", 200, "", <<>>, NoTok, user)

GetCurrentUser(c) ==
    /\ resp' = CurrentUserResponse(c)
    /\ UNCHANGED <<users, profiles, indexes, nextId, pc, req, out, held, now>>

\* ----------------------------------------------------------------- login
\* An unknown email answered with its own message.
LoginUnknownEmail_Distinct ==
    Response("login", 401, "User not found", <<>>, NoTok, {})

\* line 227: no user document for the email.
LoginUnknownEmail ==
    Response("login", 401, "Invalid email or password", <<>>, NoTok, {})
\* line 230: bcrypt.checkpw is false.
LoginWrongPassword ==
    Response("login", 401, "Invalid email or password", <<>>, NoTok, {})

\* The email as the token's subject.
LoginSubject_Email(user_doc) == <<"email", user_doc.email>>

\* The subject login puts in the token for a user document.
LoginSubject(user_doc) == IdStr(user_doc.id)

\* login(user): the response, whose token is NoTok when none is issued.
LoginResponse(e, pw) ==
    LET found == FindOne({u \in users : u.email = e})
    IN IF found = {} THEN LoginUnknownEmail
       ELSE LET user_doc == CHOOSE u \in found : TRUE
            IN IF ~CheckPw(pw, user_doc.password) THEN LoginWrongPassword
               ELSE Response("login", 200, "", IdStr(user_doc.id),
                             create_access_token(LoginSubject(user_doc),
                                 <<JWT_ACCESS_TOKEN_EXPIRE_MINUTES>>, now),
                             {[id |-> user_doc.id, email |-> user_doc.email,
                               name |-> user_doc.name]})

\* A login that also re-hashes the stored password with a fresh salt.
Login_Rehash(e, pw) ==
    /\ resp' = LoginResponse(e, pw)
    /\ held' = IF resp'.token # NoTok THEN resp'.token ELSE held
    /\ users' = IF resp'.status = 200
                THEN {IF u.email = e
                      THEN [u EXCEPT !.password = HashPw(pw, "s2")] ELSE u : u \in users}
                ELSE users
    /\ UNCHANGED <<profiles, indexes, nextId, pc, req, out, now>>

Login(e, pw) ==
    /\ resp' = LoginResponse(e, pw)
    /\ held' = IF resp'.token # NoTok THEN resp'.token ELSE held
    /\ UNCHANGED <<users, profiles, indexes, nextId, pc, req, out, now>>

\* A direct call of create_access_token; the caller keeps the token.
IssueToken(sub, expires_delta) ==
    /\ held' = create_access_token(sub, expires_delta, now)
    /\ resp' = Response("issue", 0, "", <<>>, held', {})
    /\ UNCHANGED <<users, profiles, indexes, nextId, pc, req, out, now>>

\* datetime.utcnow() advances.
Tick ==
    /\ now < MaxTime
    /\ now' = now + 1
    /\ UNCHANGED <<users, profiles, indexes, nextId, pc, req, out, resp, held>>

\* ------------------------------------------------------------ onboarding
\* create_onboarding_profile(data): insert_one(profile_doc); a
\* DuplicateKeyError from the unique index on personalDetails.email is caught
\* nowhere.
CreateOnboarding(e, th, plan) ==
    /\ nextId <= MaxId
    /\ LET profile_doc == [id |-> nextId, email |-> e, theme |-> th,
                           pricingPlan |-> plan]
       IN IF ProfilesDuplicateKey(profile_doc)
          THEN /\ resp' = ServerError("create_onboarding")
               /\ UNCHANGED <<profiles, nextId>>
          ELSE /\ profiles' = profiles \cup {profile_doc}
               /\ nextId' = nextId + 1
               /\ resp' = Response("create_onboarding", 200,
                                   "Onboarding profile created successfully",
                                   IdStr(profile_doc.id), NoTok, {})
    /\ UNCHANGED <<users, indexes, pc, req, out, held, now>>

\* get_onboarding_profile(user_id): find_one({"_id": ObjectId(user_id)}).
OnboardingResponse(s) ==
    IF ObjectId(s) = {} THEN ServerError("get_onboarding")
    ELSE LET profile == FindOne({q \in profiles : {q.id} = ObjectId(s)})
         IN IF profile = {}
            THEN Response("get_onboarding", 404, "Profile not found", <<>>, NoTok, {})
            ELSE Response("get_onboarding", 200, "", s, NoTok, profile)

GetOnboarding(s) ==
    /\ resp' = OnboardingResponse(s)
    /\ UNCHANGED <<users, profiles, indexes, nextId, pc, req, out, held, now>>

\* --------------------------------------------------------- what callers send
\* Bearer strings: garbage, a token signed with another key, and JWTs under the
\* server's key with any subject and any expiry (or none).
Subjects == IdStrings \cup {<<>>}
Expiries == {<<t>> : t \in 0..MaxTime} \cup {<<>>}
Credentials ==
    {Garbage} \cup {Jwt(OtherKey, s, <<MaxTime>>) : s \in Subjects}
              \cup {Jwt(JWT_SECRET_KEY, s, x) : s \in Subjects, x \in Expiries}
\* expires_delta arguments: None, zero, negative, positive.
Deltas == {<<>>, <<0>>, <<0 - 1>>, <<1>>, <<JWT_ACCESS_TOKEN_EXPIRE_MINUTES>>}

\* ------------------------------------------------------------ specifications
\* Signup, login and authenticated requests, interleaved; the clock stands.
NextSignup ==
    \/ SetupDatabase
    \/ \E p \in Procs, e \in Emails, pw \in Passwords, n \in Names :
          SignupFind(p, e, pw, n)
    \/ \E p \in Procs, salt \in Salts : SignupInsert(p, salt)
    \/ \E e \in Emails, pw \in Passwords : Login(e, pw)
    \/ \E c \in {Garbage, held} : GetCurrentUser(c)

SpecSignup == Init /\ [][NextSignup]_vars

\* One signup at a time, login, authenticated requests, and the clock.
NextToken ==
    \/ \E e \in Emails, pw \in Passwords, n \in Names : SignupFind("r1", e, pw, n)
    \/ \E salt \in Salts : SignupInsert("r1", salt)
    \/ \E e \in Emails, pw \in Passwords : Login(e, pw)
    \/ \E c \in Credentials \cup {held} : GetCurrentUser(c)
    \/ Tick

SpecToken == Init /\ [][NextToken]_vars

\* The token issuer on its own inputs, over registered users.
NextIssuer ==
    \/ \E e \in Emails, n \in Names : SignupFind("r1", e, "pw1", n)
    \/ SignupInsert("r1", "s1")
    \/ \E s \in Subjects, d \in Deltas : IssueToken(s, d)
    \/ GetCurrentUser(held)
    \/ Tick

SpecIssuer == Init /\ [][NextIssuer]_vars

\* The onboarding routes.
NextOnboarding ==
    \/ SetupDatabase
    \/ \E e \in Emails, th \in Themes, plan \in Plans : CreateOnboarding(e, th, plan)
    \/ \E s \in IdStrings : GetOnboarding(s)

SpecOnboarding == Init /\ [][NextOnboarding]_vars

\* ================================================================== claims
\* A finished signup request in slot p.
SignupDone(p) == pc[p] = "idle" /\ out[p].op = "signup"
\* The step in which slot p's signup returns success.
SignupSucceeds(p) == pc[p] = "insert" /\ pc'[p] = "idle" /\ out'[p].status = 200
\* Whether (e, pw) are the credentials of a stored user.
ValidCredentials(e, pw) == \E u \in users : u.email = e /\ CheckPw(pw, u.password)

\* C1: of two signup requests with the same email, never both succeed, and
\* each ends either in success or in the 400 "User already exists" conflict.
C1_OneWinnerOneConflict ==
    \A p, q \in Procs :
        (p # q /\ SignupDone(p) /\ SignupDone(q) /\ req[p].email = req[q].email)
        => /\ ~(out[p].status = 200 /\ out[q].status = 200)
           /\ \A r \in {p, q} :
                 \/ out[r].status = 200
                 \/ out[r].status = 400 /\ out[r].detail = "User already exists"

\* C2: no two user records have the same email.
C2_UniqueEmail == \A u, v \in users : u.email = v.email => u = v

\* C2 witness: two signups for one email raced, the index refused the second
\* insert, and the collection holds the winner's record.
C2_Witness ==
    \E p, q \in Procs :
        /\ p # q /\ SignupDone(p) /\ SignupDone(q)
        /\ req[p].email = req[q].email
        /\ out[p].status = 200 /\ out[q].status = 500
        /\ \E u \in users : u.email = req[p].email

\* C3: after a successful signup, a login with the same email and password
\* succeeds for the signed-up user, and its token, presented before its expiry,
\* is verified and resolves to the record whose id the signup returned.
C3_SignupLoginVerify ==
    [][ /\ \A e \in Emails, pw \in Passwords, p \in Procs :
              ( /\ SignupDone(p) /\ out[p].status = 200
                /\ req[p].email = e /\ req[p].password = pw
                /\ Login(e, pw) )
              => /\ resp'.status = 200
                 /\ resp'.userId = out[p].userId
                 /\ resp'.token.sub = out[p].userId
                 /\ held' = resp'.token
        /\ \A p \in Procs :
              ( /\ held # NoTok /\ now < held.exp[1]
                /\ SignupDone(p) /\ out[p].status = 200
                /\ held.sub = out[p].userId
                /\ GetCurrentUser(held) )
              => /\ resp'.status = 200
                 /\ \E u \in users : /\ resp'.doc = {u}
                                     /\ IdStr(u.id) = out[p].userId
                                     /\ u.email = req[p].email
      ]_vars

\* C3 witness: time has passed since a login of the signed-up user, and the
\* token it returned has been verified and resolved to that user's record.
C3_Witness ==
    \E p \in Procs, u \in users :
        /\ SignupDone(p) /\ out[p].status = 200
        /\ IdStr(u.id) = out[p].userId
        /\ held # NoTok /\ held.sub = out[p].userId
        /\ 0 < now /\ now < held.exp[1]
        /\ resp = Response("get_current_user", 200, "", <<>>, NoTok, {u})

\* C4: a login that fails, because the email is unknown or because the
\* password is wrong, always returns the same response (401, one message, no
\* token, no user fields) and hands out no token.
C4_LoginFailuresIndistinguishable ==
    [][ \A e \in Emails, pw \in Passwords :
            (~ValidCredentials(e, pw) /\ Login(e, pw))
            => /\ resp' = Response("login", 401, "Invalid email or password",
                                   <<>>, NoTok, {})
               /\ held' = held
      ]_vars

\* C4 witness: a login has failed in a state where one email is registered
\* and another is not, so both causes of failure can have produced it.
C4_Witness ==
    /\ resp.op = "login" /\ resp.status = 401
    /\ \E e \in Emails : \E u \in users : u.email = e
    /\ \E e \in Emails : \A u \in users : u.email # e

\* C5: a token issued with a zero ttl, or with an expiry already past, is
\* rejected as expired at the time of issue and at every later time.
C5_ZeroTtlExpired ==
    [][ \A s \in Subjects, d \in {<<0>>, <<0 - 1>>} :
            IssueToken(s, d)
            => \A t \in now..MaxTime : JwtDecode(held', t) = "ExpiredSignatureError"
      ]_vars

\* C6: a token minted by login is accepted, resolving to its user, at every
\* time strictly before its expiry and rejected at every time from its expiry
\* onward; a token whose signature does not verify is rejected at every time.
C6_ValidityWindow ==
    [][ /\ (held # NoTok /\ GetCurrentUser(held))
           => /\ now < held.exp[1]
                 => /\ resp'.status = 200
                    /\ \E u \in users : resp'.doc = {u} /\ IdStr(u.id) = held.sub
              /\ now >= held.exp[1] => resp' = CredentialsException
        /\ \A c \in Credentials :
              (c.key # JWT_SECRET_KEY /\ GetCurrentUser(c))
              => resp' = CredentialsException
      ]_vars

\* C7: every get_current_user request ends either Verified (200 with the user
\* record) or Rejected with the one generic 401 response.
C7_VerifiedOrRejected ==
    resp.op = "get_current_user"
    => \/ resp.status = 200 /\ resp.doc # {} /\ resp.doc \subseteq users
       \/ resp = CredentialsException

\* C8: GET /api/onboarding/{id} answers 404 for every id that identifies no
\* stored profile, well-formed or not, and leaves the collection unchanged.
C8_MissingProfileIs404 ==
    [][ \A s \in IdStrings :
            (GetOnboarding(s) /\ ~\E q \in profiles : IdStr(q.id) = s)
            => /\ resp'.status = 404
               /\ profiles' = profiles
      ]_vars

\* C9: POST /api/onboarding with a valid body always succeeds, stores exactly
\* one new profile holding the submitted fields, and returns the id under
\* which a following GET finds it.
C9_CreateThenGet ==
    [][ \A e \in Emails, th \in Themes, plan \in Plans :
            CreateOnboarding(e, th, plan)
            => /\ resp'.status = 200
               /\ \E q \in profiles' \ profiles :
                     /\ profiles' = profiles \cup {q}
                     /\ q.email = e /\ q.theme = th /\ q.pricingPlan = plan
                     /\ resp'.userId = IdStr(q.id)
                     /\ FindOne({d \in profiles' : {d.id} = ObjectId(resp'.userId)}) = {q}
      ]_vars

\* C10: user records are only created: a successful signup adds exactly one
\* record with a fresh id and issues no token; every other step (a rejected
\* signup, a login, a get_current_user call) leaves the collection unchanged;
\* no existing record is ever changed or removed.
C10_UsersOnlyCreated ==
    [][ /\ users \subseteq users'
        /\ \A p \in Procs :
              SignupSucceeds(p)
              => /\ \E u \in users' \ users :
                       /\ users' = users \cup {u}
                       /\ \A v \in users : v.id # u.id
                       /\ out'[p].userId = IdStr(u.id)
                 /\ out'[p].token = NoTok
                 /\ held' = held
        /\ (\A p \in Procs : ~SignupSucceeds(p)) => users' = users
      ]_vars

\* C10 witness: two records exist, a signup has been rejected, a login has
\* succeeded and its token has been used.
C10_Witness ==
    /\ Cardinality(users) = 2
    /\ \E p \in Procs : SignupDone(p) /\ out[p].status = 400
    /\ held # NoTok
    /\ resp.op = "get_current_user" /\ resp.status = 200
====
